---- MODULE Spec2Model ----
(***************************************************************************)
(* Model of the SGP30 gas sensor driver (class SGP30 of src/__init__.py):  *)
(* command framing over I2C, the settle delay, CRC-8 validation of the     *)
(* response words and the one-way calibration flag _init.                  *)
(*                                                                         *)
(* Every driver method is one atomic action.  The bus is the environment:  *)
(* each command draws the outcome of its writeto() and readfrom() calls    *)
(* (success or OSError, and the bytes read) from small sets.  The variable *)
(* log is the call log of the bus for the most recent driver method, as a  *)
(* mock transport would record it.                                         *)
(***************************************************************************)
EXTENDS Integers, Sequences, FiniteSets

VARIABLES
    drv,        \* "none" before SGP30(i2c), "alive" once built, "failed" if __init__ raised
    _init,      \* self._init
    op,         \* name of the most recent driver method called
    log,        \* bus calls made by that method, in order
    err,        \* exception raised by that method, or NoErr
    ret,        \* value returned by that method
    aq_calls,   \* number of air_quality() calls so far
    init_cmds,  \* number of writeto() calls carrying OP_INIT_AIR_QUALITY so far
    crc_in,     \* argument of a stand-alone _crc8 call (SpecCrc)
    crc_out,    \* <<result>> of that call, <<>> before it
    crc_trace,  \* the values the local crc took in that call, in order
    history,    \* the list history of the polling loop
    pc,         \* where the module-level script stands (SpecLoop)
    iters       \* number of completed iterations of its while loop

vars == <<drv, _init, op, log, err, ret, aq_calls, init_cmds, crc_in, crc_out,
          crc_trace, history, pc, iters>>

----------------------------------------------------------------------------
(* Bounds and inputs of the model *)

\* air_quality() is called at most this many times in a run
MaxCalls == 3

\* data words a response may carry: 400, 100, 60000, 65535 and 0xD400
DataWords == { <<1, 144>>, <<0, 100>>, <<234, 96>>, <<255, 255>>, <<212, 0>> }

\* data words of the 3-word serial ID response
SerialDataWords == { <<1, 144>>, <<212, 0>> }

\* the polling loop runs at most this many iterations
MaxIter == 3

\* data words of the responses read in the polling loop: 0, 400 and 65535
LoopDataWords == { <<0, 0>>, <<1, 144>>, <<255, 255>> }

\* the address lists i2c.scan() may return
ScanResults == { <<>>, <<60>>, <<88>>, <<60, 88>> }

----------------------------------------------------------------------------
(* Python's integer operators on non-negative ints *)

RECURSIVE BitXor(_, _)
BitXor(a, b) ==
    IF a = 0 THEN b
    ELSE IF b = 0 THEN a
    ELSE (((a % 2) + (b % 2)) % 2) + 2 * BitXor(a \div 2, b \div 2)

RECURSIVE BitAnd(_, _)
BitAnd(a, b) ==
    IF a = 0 \/ b = 0 THEN 0
    ELSE ((a % 2) * (b % 2)) + 2 * BitAnd(a \div 2, b \div 2)

RECURSIVE BitOr(_, _)
BitOr(a, b) ==
    IF a = 0 THEN b
    ELSE IF b = 0 THEN a
    ELSE (IF a % 2 = 1 \/ b % 2 = 1 THEN 1 ELSE 0) + 2 * BitOr(a \div 2, b \div 2)

Shl(a, n) == a * (2 ^ n)

Shr(a, n) == a \div (2 ^ n)

----------------------------------------------------------------------------
(* Program constants *)

ADDR == 88

OP_GET_SERIAL_ID == 13954

OP_INIT_AIR_QUALITY == 8195

OP_MEASURE_AIR_QUALITY == 8200

OP_MEASURE_RAW_SIGNALS == 8272

OP_MEASURE_TEST == 8242

\* settle delays in milliseconds: wait=0.01 and wait=0.25
WAIT_DEFAULT == 10

WAIT_TEST == 250

CRC_POLY == 49

CRC_INIT == 255

\* b'\xd4\x00'
TEST_OK == <<212, 0>>

NoErr == "none"

ErrNotFound == "SGP30 not found on I2C bus"

ErrCRC == "CRC verification failure"

ErrSelfTest == "Can not self test after initial reading"

ErrAssert == "AssertionError"

\* the exception of a failing i2c.writeto()/i2c.readfrom()
ErrOS == "OSError"

----------------------------------------------------------------------------
(* SGP30._crc8 *)

\* the shift step with the "& 0xff" of its first branch lost
Crc8Shift_unmasked(crc) ==
    IF BitAnd(crc, 128) # 0
    THEN BitXor(Shl(crc, 1), CRC_POLY)
    ELSE Shl(crc, 1)

\* one pass of the loop over j
Crc8Shift(crc) ==
    IF BitAnd(crc, 128) # 0
    THEN BitAnd(BitXor(Shl(crc, 1), CRC_POLY), 255)
    ELSE Shl(crc, 1)

RECURSIVE Crc8Bits(_, _)
Crc8Bits(crc, j) == IF j = 8 THEN crc ELSE Crc8Bits(Crc8Shift(crc), j + 1)

\* the eight passes over j, tabulated for the values a byte can take
Crc8Table == [c \in 0..255 |-> Crc8Bits(c, 0)]

Crc8Byte(crc) == IF crc \in 0..255 THEN Crc8Table[crc] ELSE Crc8Bits(crc, 0)

RECURSIVE Crc8Bytes(_, _, _)
Crc8Bytes(data, k, crc) ==
    IF k > Len(data) THEN crc
    ELSE Crc8Bytes(data, k + 1, Crc8Byte(BitXor(crc, data[k])))

\* the values assigned to crc by the passes j, j+1, ... 7 of the inner loop
RECURSIVE Crc8BitsTrace(_, _)
Crc8BitsTrace(crc, j) ==
    IF j = 8 THEN <<>>
    ELSE <<Crc8Shift(crc)>> \o Crc8BitsTrace(Crc8Shift(crc), j + 1)

\* the values assigned to crc from byte k of data on: after each "crc ^= b"
\* and after each pass of the inner loop
RECURSIVE Crc8BytesTrace(_, _, _)
Crc8BytesTrace(data, k, crc) ==
    IF k > Len(data) THEN <<>>
    ELSE LET x == BitXor(crc, data[k])
             t == Crc8BitsTrace(x, 0)
         IN  <<x>> \o t \o Crc8BytesTrace(data, k + 1, t[8])

\* every value of crc in a call started from crc: the start value first
Crc8Trace(data, k, crc) == <<crc>> \o Crc8BytesTrace(data, k, crc)

\* _crc8 started from 0 instead of 0xff
_crc8_init0(data) == Crc8Bytes(data, 1, 0)

_crc8(data) == Crc8Bytes(data, 1, CRC_INIT)

----------------------------------------------------------------------------
(* The bus: call log entries and the outcomes the environment may choose *)

\* scan and sleep entries carry no address: addr is -1 there
ScanEv(devices) ==
    [ev |-> "scan", addr |-> -1, n |-> Len(devices), data |-> devices, ok |-> TRUE]

WriteEv(addr, bytes, ok) ==
    [ev |-> "write", addr |-> addr, n |-> Len(bytes), data |-> bytes, ok |-> ok]

SleepEv(ms) == [ev |-> "sleep", addr |-> -1, n |-> ms, data |-> <<>>, ok |-> TRUE]

ReadEv(addr, n, bytes, ok) ==
    [ev |-> "read", addr |-> addr, n |-> n, data |-> bytes, ok |-> ok]

\* a response word: two data bytes and a checksum byte, right or wrong
WordsOver(dw) == UNION { { w \o <<c>> : c \in {_crc8(w), 0} } : w \in dw }

Words == WordsOver(DataWords)

SerialWords == WordsOver(SerialDataWords)

\* outcome of the bus calls of one command: wok/rok tell whether writeto()
\* and readfrom() return, resp is what readfrom() returns
BusOutcomes(responses) ==
    { [wok |-> FALSE, rok |-> TRUE, resp |-> <<>>],
      [wok |-> TRUE, rok |-> FALSE, resp |-> <<>>] }
    \cup { [wok |-> TRUE, rok |-> TRUE, resp |-> r] : r \in responses }

\* a command that reads nothing
Bus0 == { [wok |-> FALSE, rok |-> TRUE, resp |-> <<>>],
          [wok |-> TRUE, rok |-> TRUE, resp |-> <<>>] }

Bus1 == BusOutcomes(Words)

\* 2-word responses whose second checksum byte is the CRC-8 of all four data
\* bytes, as a checksum running across the words would be
RunningCrcResponses ==
    { a \o <<_crc8(a)>> \o b \o <<_crc8(a \o b)>> : a \in DataWords, b \in DataWords }

Bus2 == BusOutcomes({ a \o b : a \in Words, b \in Words } \cup RunningCrcResponses)

BusSerial ==
    BusOutcomes({ a \o b \o c : a \in SerialWords, b \in SerialWords, c \in SerialWords })

----------------------------------------------------------------------------
(* SGP30._cmd *)

\* the for loop of _cmd with the checksum taken over all the data bytes read
\* so far instead of the word's own two
RECURSIVE VerifyWords_running_crc(_, _, _, _)
VerifyWords_running_crc(resp, i, response_words, resp_bytes) ==
    IF i = response_words THEN [err |-> NoErr, bytes |-> resp_bytes]
    ELSE LET word == SubSeq(resp, i * 3 + 1, i * 3 + 2)
         IN  IF _crc8(resp_bytes \o word) # resp[i * 3 + 3]
             THEN [err |-> ErrCRC, bytes |-> <<>>]
             ELSE VerifyWords_running_crc(resp, i + 1, response_words, resp_bytes \o word)

\* the for loop of _cmd from word i on; resp_bytes is the bytearray so far
RECURSIVE VerifyWords(_, _, _, _)
VerifyWords(resp, i, response_words, resp_bytes) ==
    IF i = response_words THEN [err |-> NoErr, bytes |-> resp_bytes]
    ELSE LET word == SubSeq(resp, i * 3 + 1, i * 3 + 2)
         IN  IF _crc8(word) # resp[i * 3 + 3]
             THEN [err |-> ErrCRC, bytes |-> <<>>]
             ELSE VerifyWords(resp, i + 1, response_words, resp_bytes \o word)

\* the data bytes of resp, checksum bytes dropped
RECURSIVE DataBytes(_, _, _)
DataBytes(resp, i, response_words) ==
    IF i = response_words THEN <<>>
    ELSE SubSeq(resp, i * 3 + 1, i * 3 + 2) \o DataBytes(resp, i + 1, response_words)

\* _cmd with the checksum comparison lost: every response is accepted
_cmd_unchecked(opcode, response_words, wait, bus) ==
    LET wr == WriteEv(ADDR, <<Shr(opcode, 8), BitAnd(opcode, 255)>>, bus.wok)
        sl == SleepEv(wait)
        rd == ReadEv(ADDR, response_words * 3, bus.resp, bus.rok)
    IN  IF ~bus.wok THEN [log |-> <<wr>>, err |-> ErrOS, bytes |-> <<>>]
        ELSE IF response_words = 0 THEN [log |-> <<wr, sl>>, err |-> NoErr, bytes |-> <<>>]
        ELSE IF ~bus.rok THEN [log |-> <<wr, sl, rd>>, err |-> ErrOS, bytes |-> <<>>]
        ELSE [log |-> <<wr, sl, rd>>, err |-> NoErr,
              bytes |-> DataBytes(bus.resp, 0, response_words)]

\* _cmd that reads a response even when response_words is 0
_cmd_always_reads(opcode, response_words, wait, bus) ==
    LET wr == WriteEv(ADDR, <<Shr(opcode, 8), BitAnd(opcode, 255)>>, bus.wok)
        sl == SleepEv(wait)
        rd == ReadEv(ADDR, response_words * 3, bus.resp, bus.rok)
    IN  IF ~bus.wok THEN [log |-> <<wr>>, err |-> ErrOS, bytes |-> <<>>]
        ELSE IF ~bus.rok THEN [log |-> <<wr, sl, rd>>, err |-> ErrOS, bytes |-> <<>>]
        ELSE LET v == VerifyWords(bus.resp, 0, response_words, <<>>)
             IN  [log |-> <<wr, sl, rd>>, err |-> v.err, bytes |-> v.bytes]

\* _cmd that calls writeto() a second time when the first call raised
_cmd_retry_write(opcode, response_words, wait, bus) ==
    LET wr == WriteEv(ADDR, <<Shr(opcode, 8), BitAnd(opcode, 255)>>, bus.wok)
        sl == SleepEv(wait)
        rd == ReadEv(ADDR, response_words * 3, bus.resp, bus.rok)
    IN  IF ~bus.wok THEN [log |-> <<wr, wr>>, err |-> ErrOS, bytes |-> <<>>]
        ELSE IF response_words = 0 THEN [log |-> <<wr, sl>>, err |-> NoErr, bytes |-> <<>>]
        ELSE IF ~bus.rok THEN [log |-> <<wr, sl, rd>>, err |-> ErrOS, bytes |-> <<>>]
        ELSE LET v == VerifyWords(bus.resp, 0, response_words, <<>>)
             IN  [log |-> <<wr, sl, rd>>, err |-> v.err, bytes |-> v.bytes]

\* _cmd with the settle delay placed after the read
_cmd_read_before_sleep(opcode, response_words, wait, bus) ==
    LET wr == WriteEv(ADDR, <<Shr(opcode, 8), BitAnd(opcode, 255)>>, bus.wok)
        sl == SleepEv(wait)
        rd == ReadEv(ADDR, response_words * 3, bus.resp, bus.rok)
    IN  IF ~bus.wok THEN [log |-> <<wr>>, err |-> ErrOS, bytes |-> <<>>]
        ELSE IF response_words = 0 THEN [log |-> <<wr, sl>>, err |-> NoErr, bytes |-> <<>>]
        ELSE IF ~bus.rok THEN [log |-> <<wr, rd>>, err |-> ErrOS, bytes |-> <<>>]
        ELSE LET v == VerifyWords(bus.resp, 0, response_words, <<>>)
             IN  [log |-> <<wr, rd, sl>>, err |-> v.err, bytes |-> v.bytes]

_cmd(opcode, response_words, wait, bus) ==
    LET wr == WriteEv(ADDR, <<Shr(opcode, 8), BitAnd(opcode, 255)>>, bus.wok)
        sl == SleepEv(wait)
        rd == ReadEv(ADDR, response_words * 3, bus.resp, bus.rok)
    IN  IF ~bus.wok THEN [log |-> <<wr>>, err |-> ErrOS, bytes |-> <<>>]
        ELSE IF response_words = 0 THEN [log |-> <<wr, sl>>, err |-> NoErr, bytes |-> <<>>]
        ELSE IF ~bus.rok THEN [log |-> <<wr, sl, rd>>, err |-> ErrOS, bytes |-> <<>>]
        ELSE LET v == VerifyWords(bus.resp, 0, response_words, <<>>)
             IN  [log |-> <<wr, sl, rd>>, err |-> v.err, bytes |-> v.bytes]

----------------------------------------------------------------------------
(* Return values *)

Nothing == [kind |-> "nothing", bytes |-> <<>>, co2_ppm |-> 0, tvoc_ppb |-> 0]

RetBytes(b) == [kind |-> "bytes", bytes |-> b, co2_ppm |-> 0, tvoc_ppb |-> 0]

RetDict(co2, tvoc) == [kind |-> "dict", bytes |-> <<>>, co2_ppm |-> co2, tvoc_ppb |-> tvoc]

----------------------------------------------------------------------------
(* The driver's methods.  Each yields the bus log, the exception raised    *)
(* (or NoErr), the value returned and, where it matters, the new _init.    *)

_get_serial_id(bus) ==
    LET c == _cmd(OP_GET_SERIAL_ID, 3, WAIT_DEFAULT, bus)
    IN  [log |-> c.log, err |-> c.err,
         ret |-> IF c.err = NoErr THEN RetBytes(c.bytes) ELSE Nothing]

_init_air_quality(bus) ==
    LET c == _cmd(OP_INIT_AIR_QUALITY, 0, WAIT_DEFAULT, bus)
    IN  [log |-> c.log, err |-> c.err,
         ret |-> IF c.err = NoErr THEN RetBytes(c.bytes) ELSE Nothing]

\* _measure_air_quality with the two words taken in the opposite order
_measure_air_quality_swapped(bus) ==
    LET c == _cmd(OP_MEASURE_AIR_QUALITY, 2, WAIT_DEFAULT, bus)
        resp == c.bytes
    IN  [log |-> c.log, err |-> c.err,
         ret |-> IF c.err = NoErr
                 THEN RetDict(BitOr(Shl(resp[3], 8), resp[4]),
                              BitOr(Shl(resp[1], 8), resp[2]))
                 ELSE Nothing]

\* _measure_air_quality with the high byte shifted by 16 instead of 8
_measure_air_quality_shift16(bus) ==
    LET c == _cmd(OP_MEASURE_AIR_QUALITY, 2, WAIT_DEFAULT, bus)
        resp == c.bytes
    IN  [log |-> c.log, err |-> c.err,
         ret |-> IF c.err = NoErr
                 THEN RetDict(BitOr(Shl(resp[1], 16), resp[2]),
                              BitOr(Shl(resp[3], 16), resp[4]))
                 ELSE Nothing]

_measure_air_quality(bus) ==
    LET c == _cmd(OP_MEASURE_AIR_QUALITY, 2, WAIT_DEFAULT, bus)
        resp == c.bytes
    IN  [log |-> c.log, err |-> c.err,
         ret |-> IF c.err = NoErr
                 THEN RetDict(BitOr(Shl(resp[1], 8), resp[2]),
                              BitOr(Shl(resp[3], 8), resp[4]))
                 ELSE Nothing]

_measure_raw_signals(bus) ==
    LET c == _cmd(OP_MEASURE_RAW_SIGNALS, 2, WAIT_DEFAULT, bus)
    IN  [log |-> c.log, err |-> c.err,
         ret |-> IF c.err = NoErr THEN RetBytes(c.bytes) ELSE Nothing]

\* x in list
Contains(list, x) == \E k \in 1..Len(list) : list[k] = x

\* __init__ with the presence test lost
__init__unchecked(devices, bus) ==
    LET c == _get_serial_id(bus)
    IN  [made |-> c.err = NoErr, init |-> FALSE,
         log |-> <<ScanEv(devices)>> \o c.log, err |-> c.err]

\* __init__ that swallows a failure of the serial ID command
__init__ignores_id_failure(devices, bus) ==
    IF ~Contains(devices, ADDR)
    THEN [made |-> FALSE, init |-> FALSE, log |-> <<ScanEv(devices)>>, err |-> ErrNotFound]
    ELSE LET c == _get_serial_id(bus)
         IN  [made |-> TRUE, init |-> FALSE,
              log |-> <<ScanEv(devices)>> \o c.log, err |-> NoErr]

\* SGP30(i2c): made tells whether an instance results
__init__(devices, bus) ==
    IF ~Contains(devices, ADDR)
    THEN [made |-> FALSE, init |-> FALSE, log |-> <<ScanEv(devices)>>, err |-> ErrNotFound]
    ELSE LET c == _get_serial_id(bus)
         IN  [made |-> c.err = NoErr, init |-> FALSE,
              log |-> <<ScanEv(devices)>> \o c.log, err |-> c.err]

\* measure_test with the "if self._init" test lost
measure_test_unguarded(init, bus) ==
    LET c == _cmd(OP_MEASURE_TEST, 1, WAIT_TEST, bus)
    IN  [log |-> c.log,
         err |-> IF c.err # NoErr THEN c.err
                 ELSE IF c.bytes = TEST_OK THEN NoErr ELSE ErrAssert,
         ret |-> Nothing]

\* measure_test with the assert on the response lost
measure_test_noassert(init, bus) ==
    IF init THEN [log |-> <<>>, err |-> ErrSelfTest, ret |-> Nothing]
    ELSE LET c == _cmd(OP_MEASURE_TEST, 1, WAIT_TEST, bus)
         IN  [log |-> c.log, err |-> c.err, ret |-> Nothing]

measure_test(init, bus) ==
    IF init THEN [log |-> <<>>, err |-> ErrSelfTest, ret |-> Nothing]
    ELSE LET c == _cmd(OP_MEASURE_TEST, 1, WAIT_TEST, bus)
         IN  [log |-> c.log,
              err |-> IF c.err # NoErr THEN c.err
                      ELSE IF c.bytes = TEST_OK THEN NoErr ELSE ErrAssert,
              ret |-> Nothing]

\* air_quality with the "if not self._init" test lost: init is issued on every call
air_quality_always_init(init, bus1, bus2) ==
    LET i == _init_air_quality(bus1)
    IN  IF i.err # NoErr
        THEN [init |-> init, log |-> i.log, err |-> i.err, ret |-> Nothing]
        ELSE LET m == _measure_air_quality(bus2)
             IN  [init |-> TRUE, log |-> i.log \o m.log, err |-> m.err, ret |-> m.ret]

\* air_quality that sets the flag only once the measurement succeeded
air_quality_flag_after_measure(init, bus1, bus2) ==
    IF ~init
    THEN LET i == _init_air_quality(bus1)
         IN  IF i.err # NoErr
             THEN [init |-> init, log |-> i.log, err |-> i.err, ret |-> Nothing]
             ELSE LET m == _measure_air_quality(bus2)
                  IN  [init |-> m.err = NoErr, log |-> i.log \o m.log,
                       err |-> m.err, ret |-> m.ret]
    ELSE LET m == _measure_air_quality(bus2)
         IN  [init |-> init, log |-> m.log, err |-> m.err, ret |-> m.ret]

\* air_quality that sets the flag before it issues the init command
air_quality_flag_before_init(init, bus1, bus2) ==
    IF ~init
    THEN LET i == _init_air_quality(bus1)
         IN  IF i.err # NoErr
             THEN [init |-> TRUE, log |-> i.log, err |-> i.err, ret |-> Nothing]
             ELSE LET m == _measure_air_quality(bus2)
                  IN  [init |-> TRUE, log |-> i.log \o m.log, err |-> m.err, ret |-> m.ret]
    ELSE LET m == _measure_air_quality(bus2)
         IN  [init |-> init, log |-> m.log, err |-> m.err, ret |-> m.ret]

\* bus1 is the bus outcome of the init command, bus2 that of the measure command
air_quality(init, bus1, bus2) ==
    IF ~init
    THEN LET i == _init_air_quality(bus1)
         IN  IF i.err # NoErr
             THEN [init |-> init, log |-> i.log, err |-> i.err, ret |-> Nothing]
             ELSE LET m == _measure_air_quality(bus2)
                  IN  [init |-> TRUE, log |-> i.log \o m.log, err |-> m.err, ret |-> m.ret]
    ELSE LET m == _measure_air_quality(bus2)
         IN  [init |-> init, log |-> m.log, err |-> m.err, ret |-> m.ret]

----------------------------------------------------------------------------
(* Actions *)

\* the two bytes that carry opcode on the wire
Wire(opcode) == <<opcode \div 256, opcode % 256>>

\* positions of the writeto() calls in l that carry opcode
WritesOf(l, opcode) ==
    { k \in 1..Len(l) : l[k].ev = "write" /\ l[k].data = Wire(opcode) }

\* number of writeto() calls in l that carry the init-air-quality opcode
InitWrites(l) == Cardinality(WritesOf(l, OP_INIT_AIR_QUALITY))

Init ==
    /\ drv = "none"
    /\ _init = FALSE
    /\ op = "none"
    /\ log = <<>>
    /\ err = NoErr
    /\ ret = Nothing
    /\ aq_calls = 0
    /\ init_cmds = 0
    /\ crc_in = <<>>
    /\ crc_out = <<>>
    /\ crc_trace = <<>>
    /\ history = <<>>
    /\ pc = "none"
    /\ iters = 0

Construct ==
    /\ drv = "none"
    /\ \E devices \in ScanResults, bus \in BusSerial :
       \E r \in { __init__(devices, bus) } :
             /\ drv' = IF r.made THEN "alive" ELSE "failed"
             /\ _init' = r.init
             /\ op' = "__init__"
             /\ log' = r.log
             /\ err' = r.err
             /\ ret' = Nothing
    /\ UNCHANGED <<aq_calls, init_cmds, crc_in, crc_out, crc_trace, history, pc, iters>>

GetSerialId ==
    /\ drv = "alive"
    /\ \E bus \in BusSerial :
       \E r \in { _get_serial_id(bus) } :
             /\ op' = "_get_serial_id"
             /\ log' = r.log
             /\ err' = r.err
             /\ ret' = r.ret
    /\ UNCHANGED <<drv, _init, aq_calls, init_cmds, crc_in, crc_out, crc_trace, history, pc, iters>>

\* measure_test() that marks the driver initialised when the test passes
MeasureTest_sets_flag ==
    /\ drv = "alive"
    /\ \E bus \in Bus1 :
       \E r \in { measure_test(_init, bus) } :
             /\ op' = "measure_test"
             /\ log' = r.log
             /\ err' = r.err
             /\ ret' = r.ret
             /\ _init' = (_init \/ r.err = NoErr)
    /\ UNCHANGED <<drv, aq_calls, init_cmds, crc_in, crc_out, crc_trace, history, pc, iters>>

MeasureTest ==
    /\ drv = "alive"
    /\ \E bus \in Bus1 :
       \E r \in { measure_test(_init, bus) } :
             /\ op' = "measure_test"
             /\ log' = r.log
             /\ err' = r.err
             /\ ret' = r.ret
    /\ UNCHANGED <<drv, _init, aq_calls, init_cmds, crc_in, crc_out, crc_trace, history, pc, iters>>

AirQuality ==
    /\ drv = "alive"
    /\ aq_calls < MaxCalls
    /\ \E bus1 \in Bus0, bus2 \in Bus2 :
       \E r \in { air_quality(_init, bus1, bus2) } :
             /\ _init' = r.init
             /\ op' = "air_quality"
             /\ log' = r.log
             /\ err' = r.err
             /\ ret' = r.ret
             /\ init_cmds' = init_cmds + InitWrites(r.log)
    /\ aq_calls' = aq_calls + 1
    /\ UNCHANGED <<drv, crc_in, crc_out, crc_trace, history, pc, iters>>

MeasureRawSignals ==
    /\ drv = "alive"
    /\ \E bus \in Bus2 :
       \E r \in { _measure_raw_signals(bus) } :
             /\ op' = "_measure_raw_signals"
             /\ log' = r.log
             /\ err' = r.err
             /\ ret' = r.ret
    /\ UNCHANGED <<drv, _init, aq_calls, init_cmds, crc_in, crc_out, crc_trace, history, pc, iters>>

Next ==
    \/ Construct
    \/ GetSerialId
    \/ MeasureTest
    \/ AirQuality
    \/ MeasureRawSignals

Spec == Init /\ [][Next]_vars

----------------------------------------------------------------------------
(* _crc8 on its own: every 2-byte input *)

InitCrc ==
    /\ drv = "none"
    /\ _init = FALSE
    /\ op = "none"
    /\ log = <<>>
    /\ err = NoErr
    /\ ret = Nothing
    /\ aq_calls = 0
    /\ init_cmds = 0
    /\ crc_in \in { <<a, b>> : a \in 0..255, b \in 0..255 }
    /\ crc_out = <<>>
    /\ crc_trace = <<>>
    /\ history = <<>>
    /\ pc = "none"
    /\ iters = 0

Crc8Call ==
    /\ crc_out = <<>>
    /\ crc_out' = <<_crc8(crc_in)>>
    /\ crc_trace' = Crc8Trace(crc_in, 1, CRC_INIT)
    /\ UNCHANGED <<drv, _init, op, log, err, ret, aq_calls, init_cmds, crc_in,
                   history, pc, iters>>

NextCrc == Crc8Call

SpecCrc == InitCrc /\ [][NextCrc]_vars

----------------------------------------------------------------------------
(* The module-level script: construction, history and the while loop *)

BADGE_EINK_WIDTH == 296

\* the least v with int(math.log(v) / math.log(60000) * 64) >= k, for k = 1..64
LogScaleSteps ==
    <<2, 2, 2, 2, 3, 3, 4, 4, 5, 6, 7, 8, 10, 12, 14, 16, 19, 23, 27, 32, 37, 44,
      53, 62, 74, 88, 104, 124, 147, 174, 207, 245, 291, 346, 411, 488, 579, 688,
      816, 970, 1151, 1367, 1624, 1928, 2289, 2719, 3229, 3834, 4553, 5407, 6421,
      7626, 9056, 10754, 12771, 15167, 18012, 21390, 25402, 30166, 35825, 42544,
      50524, 60000>>

\* int(math.log(max(v, 1)) / log_max * 64)
LogScale(v) ==
    LET m == IF v > 1 THEN v ELSE 1
    IN  Cardinality({ k \in 1..Len(LogScaleSteps) : LogScaleSteps[k] <= m })

LoopBus2 ==
    BusOutcomes({ a \o b : a \in WordsOver(LoopDataWords), b \in WordsOver(LoopDataWords) })

InitLoop ==
    /\ drv = "none"
    /\ _init = FALSE
    /\ op = "none"
    /\ log = <<>>
    /\ err = NoErr
    /\ ret = Nothing
    /\ aq_calls = 0
    /\ init_cmds = 0
    /\ crc_in = <<>>
    /\ crc_out = <<>>
    /\ crc_trace = <<>>
    /\ history = <<>>
    /\ pc = "start"
    /\ iters = 0

\* sgp30 = SGP30(i2c); history = [(0, 0)] * BADGE_EINK_WIDTH
LoopConstruct ==
    /\ pc = "start"
    /\ \E devices \in ScanResults, bus \in BusSerial :
       \E r \in { __init__(devices, bus) } :
             /\ drv' = IF r.made THEN "alive" ELSE "failed"
             /\ _init' = r.init
             /\ op' = "__init__"
             /\ log' = r.log
             /\ err' = r.err
             /\ ret' = Nothing
             /\ pc' = IF r.made THEN "measure" ELSE "crashed"
             /\ history' = IF r.made THEN [k \in 1..BADGE_EINK_WIDTH |-> <<0, 0>>]
                                     ELSE history
    /\ UNCHANGED <<aq_calls, init_cmds, crc_in, crc_out, crc_trace, iters>>

\* measurement = sgp30.air_quality(); an exception ends the script
LoopMeasure ==
    /\ pc = "measure"
    /\ iters < MaxIter
    /\ \E bus1 \in Bus0, bus2 \in LoopBus2 :
       \E r \in { air_quality(_init, bus1, bus2) } :
             /\ _init' = r.init
             /\ op' = "air_quality"
             /\ log' = r.log
             /\ err' = r.err
             /\ ret' = r.ret
             /\ init_cmds' = init_cmds + InitWrites(r.log)
             /\ pc' = IF r.err = NoErr THEN "pop" ELSE "crashed"
    /\ aq_calls' = aq_calls + 1
    /\ UNCHANGED <<drv, crc_in, crc_out, crc_trace, history, iters>>

\* the iteration with "_ = history.pop(0)" lost
LoopPop_keeps_oldest ==
    /\ pc = "pop"
    /\ pc' = "append"
    /\ UNCHANGED <<drv, _init, op, log, err, ret, aq_calls, init_cmds,
                   crc_in, crc_out, crc_trace, history, iters>>

\* _ = history.pop(0)
LoopPop ==
    /\ pc = "pop"
    /\ history' = Tail(history)
    /\ pc' = "append"
    /\ UNCHANGED <<drv, _init, op, log, err, ret, aq_calls, init_cmds,
                   crc_in, crc_out, crc_trace, iters>>

\* history.append((co2_y, tvoc_y)), the drawing and time.sleep(1)
LoopAppend ==
    /\ pc = "append"
    /\ history' = Append(history, <<LogScale(ret.co2_ppm), LogScale(ret.tvoc_ppb)>>)
    /\ pc' = "measure"
    /\ iters' = iters + 1
    /\ UNCHANGED <<drv, _init, op, log, err, ret, aq_calls, init_cmds,
                   crc_in, crc_out, crc_trace>>

NextLoop ==
    \/ LoopConstruct
    \/ LoopMeasure
    \/ LoopPop
    \/ LoopAppend

SpecLoop == InitLoop /\ [][NextLoop]_vars

----------------------------------------------------------------------------
(* Properties *)

\* the step is a call of air_quality()
AirQualityStep == aq_calls' = aq_calls + 1

\* C1 as stated: the init-air-quality command is written exactly once, by the
\* first air_quality() call and before its measure command, and by no later call.
C1_InitExactlyOnce ==
    /\ aq_calls >= 1 => init_cmds = 1
    /\ (op = "air_quality" /\ aq_calls = 1) =>
          /\ WritesOf(log, OP_INIT_AIR_QUALITY) = {1}
          /\ \A k \in WritesOf(log, OP_MEASURE_AIR_QUALITY) : k > 1
    /\ (op = "air_quality" /\ aq_calls > 1) => InitWrites(log) = 0

\* C1 amended: an air_quality() call writes the init-air-quality command exactly
\* when the flag _init is false on entry, once and as its first bus call (before
\* any measure command); a call entered with the flag set writes it zero times.
\* The flag is set by such a call exactly when its init write succeeds and is
\* never cleared, so the command is written by every call up to and including
\* the first one whose init write succeeds and by none after it.
C1_InitWhileUninitialised ==
    [][AirQualityStep =>
         /\ WritesOf(log', OP_INIT_AIR_QUALITY) = (IF _init THEN {} ELSE {1})
         /\ \A k \in WritesOf(log', OP_MEASURE_AIR_QUALITY) :
               k > (IF _init THEN 0 ELSE 1)
         /\ init_cmds' = init_cmds + (IF _init THEN 0 ELSE 1)
         /\ _init' = (_init \/ log'[1].ok)
         /\ (~_init /\ ~log'[1].ok) => WritesOf(log', OP_MEASURE_AIR_QUALITY) = {}
      ]_vars

\* C1 witness: a second air_quality() call that ran with the flag set and
\* wrote only the measure command, the init command having been written once.
C1_Witness ==
    /\ op = "air_quality" /\ aq_calls = 2 /\ init_cmds = 1 /\ err = NoErr
    /\ WritesOf(log, OP_INIT_AIR_QUALITY) = {}
    /\ WritesOf(log, OP_MEASURE_AIR_QUALITY) = {1}

\* C2 as stated: measure_test() after any earlier air_quality() call fails with
\* the sequencing error and makes no bus call.
C2_SelfTestAfterAnyAirQuality ==
    (op = "measure_test" /\ aq_calls >= 1) => (err = ErrSelfTest /\ log = <<>>)

\* C2 amended: measure_test() entered with the flag _init set, i.e. after an
\* earlier air_quality() call whose init write succeeded, fails with the
\* sequencing error, returns nothing and makes no bus call (no write, no sleep,
\* no read); after air_quality() calls whose init write failed the flag is
\* still clear and the self-test runs.
C2_SelfTestWhenInitialised ==
    [][op' = "measure_test" =>
         /\ _init => (err' = ErrSelfTest /\ log' = <<>> /\ ret' = Nothing /\ aq_calls >= 1)
         /\ ~_init => (err' # ErrSelfTest /\ log' # <<>>)
      ]_vars

\* C2 witness: a self-test rejected after an air_quality() call.
C2_Witness ==
    op = "measure_test" /\ _init /\ aq_calls >= 1 /\ err = ErrSelfTest /\ log = <<>>

\* some word of the response resp carries a checksum byte that is not the
\* CRC-8 of its own two data bytes
HasBadWord(resp) ==
    \E i \in 0..((Len(resp) \div 3) - 1) :
        resp[3 * i + 3] # _crc8(<<resp[3 * i + 1], resp[3 * i + 2]>>)

\* C3: when a response read by a command holds a word with a wrong checksum
\* byte, the method fails with the CRC verification error, returns nothing, and
\* the failing read is the last bus call it makes (no retry).
C3_ChecksumMismatchFails ==
    \A k \in 1..Len(log) :
        (log[k].ev = "read" /\ log[k].ok /\ HasBadWord(log[k].data)) =>
            /\ err = ErrCRC
            /\ ret = Nothing
            /\ k = Len(log)
            /\ op = "__init__" => drv = "failed"

\* C3 witness: air_quality() read a response whose first word is good and
\* whose second word has a wrong checksum byte.
C3_Witness ==
    /\ op = "air_quality" /\ err = ErrCRC /\ ret = Nothing
    /\ log # <<>>
    /\ LET r == log[Len(log)]
       IN  /\ r.ev = "read" /\ r.ok
           /\ ~HasBadWord(SubSeq(r.data, 1, 3))
           /\ HasBadWord(SubSeq(r.data, 4, 6))

\* C4: SGP30(i2c) on a bus whose scan() result lacks ADDR fails with the
\* not-found error, yields no instance, and makes no bus call besides the
\* scan: no write, no sleep, no read.
C4_DeviceNotFound ==
    (op = "__init__" /\ ~Contains(log[1].data, ADDR)) =>
        /\ err = ErrNotFound
        /\ drv = "failed"
        /\ \A k \in 1..Len(log) : log[k].ev \notin {"write", "sleep", "read"}
        /\ WritesOf(log, OP_GET_SERIAL_ID) = {}

\* C4 witness: construction on a bus where only another device answers.
C4_Witness ==
    /\ op = "__init__" /\ drv = "failed" /\ err = ErrNotFound
    /\ log = <<ScanEv(<<60>>)>>

\* the write, sleep and read calls of l
BusTraffic(l) == SelectSeq(l, LAMBDA e : e.ev \in {"write", "sleep", "read"})

\* positions of the calls of kind ev in l
CallsOf(l, ev) == { k \in 1..Len(l) : l[k].ev = ev }

\* l is the bus traffic of one command: a write, then a sleep if the write
\* succeeded, then at most one read
IsCmdLog(l) ==
    /\ Len(l) \in 1..3
    /\ l[1].ev = "write"
    /\ Len(l) = 1 <=> ~l[1].ok
    /\ Len(l) >= 2 => l[2].ev = "sleep"
    /\ Len(l) = 3 => l[3].ev = "read"

\* C5 as stated: every method makes at most one write, one sleep and at most
\* one read, in that order.
C5_OneWriteSleepRead ==
    LET l == BusTraffic(log)
    IN  /\ Cardinality(CallsOf(l, "write")) <= 1
        /\ Cardinality(CallsOf(l, "sleep")) <= 1
        /\ Cardinality(CallsOf(l, "read")) <= 1
        /\ \A w \in CallsOf(l, "write"), z \in CallsOf(l, "sleep") : w < z
        /\ \A z \in CallsOf(l, "sleep"), r \in CallsOf(l, "read") : z < r

\* C5 amended: every command makes one write, then one sleep, then at most one
\* read, in that order.  _get_serial_id, measure_test, _measure_raw_signals,
\* the constructor and an air_quality() call entered with _init set run at most
\* one command; an air_quality() call entered with _init clear runs the init
\* command (write, sleep, no read) and then, if that write succeeded, the
\* measure command: up to two writes, two sleeps and one read.
C5_OneCommandOrInitThenMeasure ==
    [][LET l == BusTraffic(log')
       IN  IF AirQualityStep /\ ~_init
           THEN /\ l # <<>>
                /\ WritesOf(l, OP_INIT_AIR_QUALITY) = {1}
                /\ ~l[1].ok => Len(l) = 1
                /\ l[1].ok => /\ Len(l) >= 3
                              /\ l[2].ev = "sleep"
                              /\ IsCmdLog(SubSeq(l, 3, Len(l)))
           ELSE l = <<>> \/ IsCmdLog(l)
      ]_vars

\* C5 witness: a first air_quality() call with two writes, two sleeps, one read.
C5_Witness ==
    /\ op = "air_quality" /\ aq_calls = 1 /\ err = NoErr
    /\ Cardinality(CallsOf(log, "write")) = 2
    /\ Cardinality(CallsOf(log, "sleep")) = 2
    /\ Cardinality(CallsOf(log, "read")) = 1

\* C6 as stated: _init is false after construction, true from the first
\* air_quality() call on, and never false again.
C6_FlagSetByFirstCall ==
    /\ (drv = "alive" /\ aq_calls = 0) => ~_init
    /\ aq_calls >= 1 => _init

\* C6 amended: _init is false after construction and until air_quality() is
\* called; an air_quality() call entered with the flag clear sets it exactly
\* when its init write succeeds (it stays clear when that write raises); no
\* other method changes it and no step moves it from true to false, so it
\* changes value at most once in the life of the instance.
C6_FlagSetOnceByInitCommand ==
    [][/\ (drv = "none" /\ drv' = "alive") => ~_init'
       /\ aq_calls = 0 => ~_init
       /\ _init => _init'
       /\ (AirQualityStep /\ ~_init) => (_init' <=> log'[1].ok)
       /\ ~AirQualityStep => _init' = _init
      ]_vars

\* C6 witness: the flag is still set after a later air_quality() call failed
\* and another method ran.
C6_Witness ==
    _init /\ aq_calls >= 2 /\ op = "_measure_raw_signals" /\ err = ErrCRC

\* C7: with a response <<a, b, crc, c, d, crc>> of valid checksums
\* air_quality() returns co2_ppm = 256*a + b and tvoc_ppb = 256*c + d;
\* <<1, 144, _, 0, 100, _>> gives 400 and 100.
C7_BigEndianDecoding ==
    (op = "air_quality" /\ err = NoErr) =>
        LET r == log[Len(log)].data
        IN  /\ log[Len(log)].ev = "read"
            /\ Len(r) = 6
            /\ ~HasBadWord(r)
            /\ ret.kind = "dict"
            /\ ret.co2_ppm = 256 * r[1] + r[2]
            /\ ret.tvoc_ppb = 256 * r[4] + r[5]
            /\ (<<r[1], r[2], r[4], r[5]>> = <<1, 144, 0, 100>>) =>
                  (ret.co2_ppm = 400 /\ ret.tvoc_ppb = 100)

\* C7 witness: the response of the example, decoded.
C7_Witness ==
    /\ op = "air_quality" /\ err = NoErr
    /\ SubSeq(log[Len(log)].data, 1, 2) = <<1, 144>>
    /\ SubSeq(log[Len(log)].data, 4, 5) = <<0, 100>>
    /\ ret = RetDict(400, 100)

C9_SelfTestValue ==
    [][(/\ op' = "measure_test" /\ ~_init
        /\ Len(log') = 3 /\ log'[3].ev = "read" /\ log'[3].ok
        /\ ~HasBadWord(log'[3].data)) =>
           /\ err' = NoErr <=> 256 * log'[3].data[1] + log'[3].data[2] = 54272
           /\ err' # NoErr => (err' = ErrAssert /\ err' # ErrCRC)
      ]_vars

\* C9 witness: a self-test whose checksum-valid word is not 0xD400.
C9_Witness ==
    /\ op = "measure_test" /\ err = ErrAssert
    /\ Len(log) = 3 /\ ~HasBadWord(log[3].data)
    /\ SubSeq(log[3].data, 1, 2) = <<1, 144>>

\* the reference CRC-8 (polynomial 0x31, initial value 0xFF, MSB first, no
\* final XOR), the running value cut to 8 bits after every shift
RefCrc8Shift(c) ==
    IF c >= 128 THEN BitXor((2 * c) % 256, 49) ELSE (2 * c) % 256

RefCrc8Byte(c, b) ==
    RefCrc8Shift(RefCrc8Shift(RefCrc8Shift(RefCrc8Shift(
    RefCrc8Shift(RefCrc8Shift(RefCrc8Shift(RefCrc8Shift(BitXor(c, b)))))))))

RefCrc8(data) == RefCrc8Byte(RefCrc8Byte(255, data[1]), data[2])

\* C10: on every 2-byte input _crc8 returns the reference CRC-8, and
\* _crc8(<<0xBE, 0xEF>>) = 0x92.
C10_Crc8MatchesReference ==
    crc_out # <<>> =>
        /\ crc_out[1] = RefCrc8(crc_in)
        /\ crc_in = <<190, 239>> => crc_out[1] = 146

\* C10 witness: the datasheet's example has been computed.
C10_Witness == crc_in = <<190, 239>> /\ crc_out = <<146>>

\* the commands a method runs, in order, each as <<opcode, response words, wait>>
CommandsOf(method, l) ==
    IF method \in {"__init__", "_get_serial_id"}
    THEN <<<<OP_GET_SERIAL_ID, 3, 10>>>>
    ELSE IF method = "_measure_raw_signals" THEN <<<<OP_MEASURE_RAW_SIGNALS, 2, 10>>>>
    ELSE IF method = "measure_test" THEN <<<<OP_MEASURE_TEST, 1, 250>>>>
    ELSE IF method = "air_quality"
    THEN IF WritesOf(l, OP_INIT_AIR_QUALITY) # {}
         THEN <<<<OP_INIT_AIR_QUALITY, 0, 10>>, <<OP_MEASURE_AIR_QUALITY, 2, 10>>>>
         ELSE <<<<OP_MEASURE_AIR_QUALITY, 2, 10>>>>
    ELSE <<>>

\* l starts with the complete bus traffic of command c: the 2 opcode bytes
\* written to ADDR, one sleep of the settle delay, and a read of 3 bytes per
\* response word from ADDR exactly when words are expected
FullCommand(l, c) ==
    /\ Len(l) >= 2
    /\ l[1].ev = "write" /\ l[1].addr = 88 /\ l[1].n = 2
    /\ l[1].data = <<c[1] \div 256, c[1] % 256>>
    /\ l[2].ev = "sleep" /\ l[2].n = c[3]
    /\ c[2] = 0 => (Len(l) >= 3 => l[3].ev # "read")
    /\ c[2] > 0 => /\ Len(l) >= 3
                   /\ l[3].ev = "read" /\ l[3].addr = 88 /\ l[3].n = 3 * c[2]
                   /\ l[3].ok => Len(l[3].data) = 3 * c[2]

\* number of bus calls of a complete command c
FullLen(c) == IF c[2] = 0 THEN 2 ELSE 3

\* the traffic l is that of the commands cs, every one complete
RECURSIVE AllFull(_, _)
AllFull(l, cs) ==
    IF cs = <<>> THEN l = <<>>
    ELSE /\ FullCommand(l, cs[1])
         /\ Len(cs) > 1 => AllFull(SubSeq(l, FullLen(cs[1]) + 1, Len(l)), Tail(cs))
         /\ Len(cs) = 1 => Len(l) = FullLen(cs[1])

\* the traffic l is that of the commands cs, complete up to the first whose
\* write raised; that one made the write only and nothing follows it
RECURSIVE FullUntilWriteFails(_, _)
FullUntilWriteFails(l, cs) ==
    IF cs = <<>> THEN l = <<>>
    ELSE IF l # <<>> /\ l[1].ev = "write" /\ ~l[1].ok
    THEN /\ Len(l) = 1
         /\ l[1].addr = 88
         /\ l[1].data = <<cs[1][1] \div 256, cs[1][1] % 256>>
    ELSE /\ FullCommand(l, cs[1])
         /\ Len(l) > FullLen(cs[1]) =>
               /\ l[FullLen(cs[1])].ok
               /\ Len(cs) > 1
               /\ FullUntilWriteFails(SubSeq(l, FullLen(cs[1]) + 1, Len(l)), Tail(cs))

\* C11 as stated: every command a method runs writes its two opcode bytes to
\* 0x58, then sleeps once for the settle delay, then reads 3 bytes per word
\* from 0x58 if and only if words are expected.
C11_EveryCommandWritesSleepsReads ==
    BusTraffic(log) # <<>> => AllFull(BusTraffic(log), CommandsOf(op, log))

\* C11 amended: every command whose bus write succeeds writes exactly the two
\* bytes <<opcode >> 8, opcode & 0xff>> to 0x58, then sleeps once for the settle
\* delay (250 ms for the self-test, 10 ms for every other command), and only
\* then, if and only if words are expected, asks for exactly 3 bytes per word
\* from 0x58; with no words expected it returns an empty result and reads
\* nothing.  A command whose write raises makes that write only: no sleep and
\* no read follow.
C11_CommandFraming ==
    /\ BusTraffic(log) # <<>> => FullUntilWriteFails(BusTraffic(log), CommandsOf(op, log))
    /\ (op = "air_quality" /\ err = NoErr) => log[Len(log)].ev = "read"
    /\ \A k \in 1..Len(log) :
          (log[k].ev = "write" /\ log[k].data = Wire(OP_INIT_AIR_QUALITY) /\ log[k].ok) =>
              /\ Len(log) > k /\ log[k + 1] = SleepEv(10)
              /\ Len(log) > k + 1 => log[k + 2].ev = "write"

\* C11 witness: a self-test that wrote 0x20 0x32, slept 250 ms and read 3 bytes.
C11_Witness ==
    /\ op = "measure_test" /\ err = NoErr
    /\ log = <<WriteEv(88, <<32, 50>>, TRUE), SleepEv(250),
               ReadEv(88, 3, log[3].data, TRUE)>>

\* C12: when the bus write of a command raises, the method fails with that
\* transport error and returns nothing; the failed write is the last bus call
\* it makes (no read for that command) and the only write of that opcode (no
\* retry).
C12_WriteFailurePropagates ==
    \A k \in 1..Len(log) :
        (log[k].ev = "write" /\ ~log[k].ok) =>
            /\ err = ErrOS
            /\ ret = Nothing
            /\ k = Len(log)
            /\ \A j \in 1..Len(log) : (log[j].ev = "write" /\ log[j].data = log[k].data) => j = k
            /\ \A j \in 1..Len(log) : log[j].ev = "read" => j < k
            /\ op = "__init__" => drv = "failed"

\* C12 witness: a raw-signal measurement whose write raised.
C12_Witness ==
    /\ op = "_measure_raw_signals" /\ err = ErrOS /\ ret = Nothing
    /\ log = <<WriteEv(88, <<32, 80>>, FALSE)>>

\* resp without its checksum bytes: the data bytes, in response order
StripChecksums(resp) ==
    [k \in 1..(2 * (Len(resp) \div 3)) |-> resp[3 * ((k - 1) \div 2) + ((k - 1) % 2) + 1]]

\* C13: a command that read a response of n words (n in 1..3) passes its
\* checksum verification if and only if every word's third byte is the _crc8
\* of that word's own two data bytes; when it passes, the bytes it yields are
\* the 2n data bytes in response order, checksum bytes removed.
C13_WordwiseChecksum ==
    (log # <<>> /\ log[Len(log)].ev = "read" /\ log[Len(log)].ok) =>
        LET resp == log[Len(log)].data
            n == Len(resp) \div 3
            good == \A i \in 0..(n - 1) :
                        resp[3 * i + 3] = _crc8(<<resp[3 * i + 1], resp[3 * i + 2]>>)
        IN  /\ n \in 1..3 /\ Len(resp) = 3 * n
            /\ good <=> err # ErrCRC
            /\ op \in {"_get_serial_id", "_measure_raw_signals", "__init__", "air_quality"} =>
                  (good <=> err = NoErr)
            /\ (good /\ op \in {"_get_serial_id", "_measure_raw_signals"}) =>
                  (ret.kind = "bytes" /\ ret.bytes = StripChecksums(resp))
            /\ (good /\ op = "measure_test") =>
                  (err = NoErr <=> StripChecksums(resp) = <<212, 0>>)
            /\ (good /\ op = "air_quality") =>
                  ret = RetDict(256 * StripChecksums(resp)[1] + StripChecksums(resp)[2],
                                256 * StripChecksums(resp)[3] + StripChecksums(resp)[4])

\* C13 witness: a 2-word response whose first word is good and whose second
\* checksum byte is the CRC-8 of all four data bytes is rejected.
C13_Witness ==
    /\ op = "_measure_raw_signals" /\ err = ErrCRC /\ ret = Nothing
    /\ Len(log) = 3 /\ log[3].ok
    /\ LET resp == log[3].data
       IN  /\ resp[3] = _crc8(<<resp[1], resp[2]>>)
           /\ resp[6] = _crc8(<<resp[1], resp[2], resp[4], resp[5]>>)
           /\ resp[6] # 0

\* C14: a construction that succeeds makes, in order, one scan and one
\* get-serial-ID command (write of 0x3682 to 0x58, sleep, read of 9 bytes) and
\* no other bus call; when that command fails (checksum mismatch or transport
\* error) the construction fails and no instance results.
C14_ConstructionIdentifies ==
    op = "__init__" =>
        /\ drv = "alive" <=> err = NoErr
        /\ drv = "failed" <=> err \in {ErrNotFound, ErrCRC, ErrOS}
        /\ log[1].ev = "scan"
        /\ err = NoErr =>
              /\ Len(log) = 4
              /\ Contains(log[1].data, 88)
              /\ log[2] = WriteEv(88, <<54, 130>>, TRUE)
              /\ log[3] = SleepEv(10)
              /\ log[4] = ReadEv(88, 9, log[4].data, TRUE)
              /\ Len(log[4].data) = 9 /\ ~HasBadWord(log[4].data)
        /\ (Len(log) = 4 /\ log[4].ok /\ HasBadWord(log[4].data)) =>
              (err = ErrCRC /\ drv = "failed")
        /\ (\E k \in 1..Len(log) : ~log[k].ok) => (err = ErrOS /\ drv = "failed")

\* C14 witness: a construction that failed in its serial ID command, by a
\* checksum mismatch in the third word.
C14_Witness ==
    /\ op = "__init__" /\ drv = "failed" /\ err = ErrCRC
    /\ Len(log) = 4 /\ log[2] = WriteEv(88, <<54, 130>>, TRUE)
    /\ ~HasBadWord(SubSeq(log[4].data, 1, 6))
    /\ HasBadWord(SubSeq(log[4].data, 7, 9))

\* C15: only air_quality() changes the flag _init: _get_serial_id,
\* measure_test (passing, failing its value check, failing its checksum or
\* rejected by the guard) and _measure_raw_signals leave it as it is, so the
\* air_quality() call that follows a passed self-test still writes the init
\* command.
C15_OnlyAirQualityChangesFlag ==
    [][/\ ~AirQualityStep => _init' = _init
       /\ op' \in {"_get_serial_id", "measure_test", "_measure_raw_signals"} =>
             _init' = _init
       /\ (op = "measure_test" /\ err = NoErr) => ~_init
       /\ (op = "measure_test" /\ err = NoErr /\ AirQualityStep) =>
             WritesOf(log', OP_INIT_AIR_QUALITY) = {1}
      ]_vars

\* C15 witness: the flag is still clear after a passed self-test.
C15_Witness ==
    /\ op = "measure_test" /\ err = NoErr /\ ~_init
    /\ Len(log) = 3 /\ SubSeq(log[3].data, 1, 2) = <<212, 0>>

\* the most recent method was an air_quality() call that ended in the failed
\* write of its init command
InitWriteFailed ==
    op = "air_quality" /\ log = <<WriteEv(88, <<32, 3>>, FALSE)>>

\* C16: an air_quality() call whose init write raises leaves _init false and
\* issues no measure command; the next air_quality() call writes the init
\* command again, and a self-test in between is not rejected by the guard.
C16_FailedInitLeavesUninitialised ==
    [][/\ (AirQualityStep /\ ~_init /\ ~log'[1].ok) =>
             /\ InitWriteFailed'
             /\ ~_init'
             /\ err' = ErrOS
             /\ WritesOf(log', OP_MEASURE_AIR_QUALITY) = {}
       /\ InitWriteFailed => ~_init
       /\ (InitWriteFailed /\ AirQualityStep) => WritesOf(log', OP_INIT_AIR_QUALITY) = {1}
       /\ (InitWriteFailed /\ op' = "measure_test") =>
             (err' # ErrSelfTest /\ WritesOf(log', OP_MEASURE_TEST) = {1} /\ ~_init')
       /\ (op = "measure_test" /\ ~_init /\ AirQualityStep) =>
             WritesOf(log', OP_INIT_AIR_QUALITY) = {1}
      ]_vars

\* C16 witness: a second air_quality() call that wrote the init command again
\* because the first call's init write had failed.
C16_Witness ==
    /\ op = "air_quality" /\ aq_calls = 2 /\ init_cmds = 2 /\ _init
    /\ WritesOf(log, OP_INIT_AIR_QUALITY) = {1}
    /\ WritesOf(log, OP_MEASURE_AIR_QUALITY) = {3}

\* the most recent method was an air_quality() call that wrote its init
\* command and then failed in its measure command
MeasureFailedAfterInit ==
    /\ op = "air_quality" /\ err \in {ErrCRC, ErrOS}
    /\ log # <<>> /\ log[1] = WriteEv(88, <<32, 3>>, TRUE)

\* C17: _init is set once the init command has returned and before the measure
\* command is issued: an air_quality() call that fails in its measure command
\* (checksum mismatch or transport error) leaves _init set, the next
\* air_quality() call writes no init command, and a later self-test is rejected
\* by the guard.
C17_InitialisedDespiteFailedMeasure ==
    [][/\ (AirQualityStep /\ ~_init /\ log'[1].ok) =>
             (_init' /\ WritesOf(log', OP_MEASURE_AIR_QUALITY) = {3})
       /\ MeasureFailedAfterInit => _init
       /\ (MeasureFailedAfterInit /\ AirQualityStep) =>
             (WritesOf(log', OP_INIT_AIR_QUALITY) = {} /\ log'[1].data = <<32, 8>>)
       /\ (_init /\ op' = "measure_test") => (err' = ErrSelfTest /\ log' = <<>>)
      ]_vars

\* C17 witness: a first air_quality() call that wrote the init command and
\* failed the checksum of its measurement, with the flag set.
C17_Witness ==
    /\ MeasureFailedAfterInit /\ aq_calls = 1 /\ err = ErrCRC /\ _init
    /\ Len(log) = 5

\* position k of a trace holds the value after a "crc ^= b"
IsXorStep(k) == k > 1 /\ (k - 2) % 9 = 0

\* C18: in a _crc8 call on bytes in 0..255 the running value crc is within
\* 0..255 after every XOR and every shift, the shift without a mask being
\* taken only when bit 7 is clear, where it doubles a value below 128; the value
\* returned is the last of them, a single byte.
C18_RunningCrcIsAByte ==
    crc_out # <<>> =>
        /\ Len(crc_trace) = 1 + 9 * Len(crc_in)
        /\ \A k \in 1..Len(crc_trace) : crc_trace[k] \in 0..255
        /\ \A k \in 2..Len(crc_trace) :
              (~IsXorStep(k) /\ crc_trace[k - 1] < 128) =>
                  crc_trace[k] = 2 * crc_trace[k - 1]
        /\ \A k \in 2..Len(crc_trace) :
              (~IsXorStep(k) /\ crc_trace[k] = 2 * crc_trace[k - 1]) =>
                  crc_trace[k - 1] < 128
        /\ crc_out[1] = crc_trace[Len(crc_trace)]
        /\ crc_out[1] \in 0..255

\* C18 witness: a call in which the shift without a mask produced a value of
\* 8 bits (128 or more) from a value with bit 7 clear and bit 6 set.
C18_Witness ==
    /\ crc_in = <<190, 239>> /\ crc_out = <<146>>
    /\ \E k \in 2..Len(crc_trace) :
          /\ ~IsXorStep(k)
          /\ crc_trace[k - 1] \in 64..127
          /\ crc_trace[k] = 2 * crc_trace[k - 1]

\* C19: in the polling loop history holds exactly 296 entries at the start and
\* at the end of every iteration: an iteration whose air_quality() call
\* returns removes the oldest entry and appends one; and every iteration makes
\* exactly one air_quality() call.
C19_HistoryKeepsItsLength ==
    /\ [](/\ pc = "measure" => (Len(history) = 296 /\ aq_calls = iters)
          /\ pc = "pop" => (Len(history) = 296 /\ aq_calls = iters + 1 /\ err = NoErr)
          /\ pc = "append" => (Len(history) = 295 /\ aq_calls = iters + 1)
          /\ (pc = "crashed" /\ drv = "alive") =>
                (Len(history) = 296 /\ aq_calls = iters + 1 /\ err # NoErr))
    /\ [][/\ (pc = "measure" /\ pc' # "measure") => aq_calls' = aq_calls + 1
          /\ pc # "measure" => aq_calls' = aq_calls
          /\ pc = "pop" => history' = SubSeq(history, 2, 296)
          /\ pc = "append" =>
                /\ SubSeq(history', 1, 295) = history
                /\ Len(history') = 296
                /\ iters' = iters + 1
          /\ pc \notin {"pop", "append", "start"} => history' = history
         ]_vars

\* C19 witness: the top of the loop after two iterations, the two newest
\* entries appended and the oldest still (0, 0).
C19_Witness ==
    /\ pc = "measure" /\ iters = 2 /\ aq_calls = 2
    /\ Len(history) = 296
    /\ history[1] = <<0, 0>>
    /\ history[295] = <<34, 64>>
    /\ history[296] = <<0, 34>>

====
